---- MODULE Spec2Model ----
(***************************************************************************)
(* Model of the Keychain password manager.                                 *)
(*   impl = "main" : src/password-manager.js   (the Keychain the server    *)
(*                   requires)                                             *)
(*   impl = "p1"   : src/Proj1_Starter/password-manager.js                 *)
(* The answer of POST /keychain/load of the two servers (src/unnamed) is    *)
(* an operator over the outcome of Keychain.load.                          *)
(* Cryptography is symbolic: a PBKDF2 key is the pair (encoded password,   *)
(* salt), an AES-GCM ciphertext remembers key, iv and plaintext and opens  *)
(* only under the same key and iv when no byte was altered, and a SHA-256  *)
(* digest is an injective image of its input.                              *)
(***************************************************************************)
EXTENDS Integers, Sequences, FiniteSets, TLC

(***************************************************************************)
(* Bounds of the model.                                                    *)
(***************************************************************************)
\* longest credential value the model stores
MaxLen == 2
\* number of requests the server receives in a behaviour
MaxRequests == 4

(***************************************************************************)
(* Program constants.                                                      *)
(***************************************************************************)
PBKDF2_ITERATIONS == 100000
MAX_PASSWORD_LENGTH == 64
IV_LENGTH == 12
SALT_LENGTH == 16
\* AES-GCM appends a 128-bit authentication tag to the ciphertext
GCM_TAG_BYTES == 16
\* U+FFFD, what TextEncoder writes for an unpaired surrogate
REPLACEMENT_CHAR == 65533

(***************************************************************************)
(* JavaScript values.                                                      *)
(***************************************************************************)
Str(s) == [t |-> "string", s |-> s]
JSnull == [t |-> "null"]
Undefined == [t |-> "undefined"]
\* Object.prototype.constructor, what an empty object answers for "constructor"
ObjectCtor == [t |-> "function", s |-> "Object"]

\* ToBoolean: the operand of ||, && and if
Truthy(v) ==
  CASE v.t = "string" -> v.s # ""
    [] v.t = "boolean" -> v.b
    [] v.t \in {"null", "undefined"} -> FALSE
    [] OTHER -> TRUE

RECURSIVE Rep(_)
Rep(n) == IF n = 0 THEN "" ELSE "x" \o Rep(n - 1)

\* credential values: the strings "", "x", "xx", ...
Values == {Rep(n) : n \in 0..MaxLen}

\* domain names; "constructor" is also a property every object inherits
Domains == {"a.com", "constructor"}
InheritedNames == {"constructor"}

(***************************************************************************)
(* A plain JavaScript object used as a map: its own properties in          *)
(* insertion order.                                                        *)
(***************************************************************************)
EmptyObj == [keys |-> <<>>, val |-> [x \in {} |-> Undefined]]

OwnKeys(o) == {o.keys[i] : i \in 1..Len(o.keys)}

\* o[k]
GetProp(o, k) ==
  IF k \in OwnKeys(o) THEN o.val[k]
  ELSE IF k \in InheritedNames THEN ObjectCtor
  ELSE Undefined

\* k in o
HasProp(o, k) == k \in OwnKeys(o) \/ k \in InheritedNames

\* o[k] = v
SetProp(o, k, v) ==
  IF k \in OwnKeys(o)
  THEN [keys |-> o.keys, val |-> [o.val EXCEPT ![k] = v]]
  ELSE [keys |-> Append(o.keys, k),
        val |-> [x \in OwnKeys(o) \cup {k} |-> IF x = k THEN v ELSE o.val[x]]]

\* delete o[k]
DeleteProp(o, k) ==
  [keys |-> SelectSeq(o.keys, LAMBDA x : x # k),
   val |-> [x \in OwnKeys(o) \ {k} |-> o.val[x]]]

(***************************************************************************)
(* JSON text of a map: the sequence of its members, in property order.     *)
(***************************************************************************)
\* JSON.stringify of a map of strings
JSONstringifyMap(o) == [i \in 1..Len(o.keys) |-> <<o.keys[i], o.val[o.keys[i]]>>]

RECURSIVE ParseMembers(_, _)
ParseMembers(txt, o) ==
  IF txt = <<>> THEN o
  ELSE ParseMembers(Tail(txt), SetProp(o, Head(txt)[1], Head(txt)[2]))

\* JSON.parse of the text of a map
JSONparseMap(txt) == ParseMembers(txt, EmptyObj)

RECURSIVE MembersLen(_)
MembersLen(txt) ==
  IF txt = <<>> THEN 0
  ELSE (Len(Head(txt)[1]) + 2) + 1 + (Len(Head(txt)[2].s) + 2)
       + (IF Len(txt) > 1 THEN 1 ELSE 0) + MembersLen(Tail(txt))

\* number of bytes TextEncoder.encode gives for the JSON text of a map
JSONByteLen(txt) == 2 + MembersLen(txt)

(***************************************************************************)
(* Passwords are sequences of UTF-16 code units.                           *)
(***************************************************************************)
PwPlain == <<112, 119>>
PwLoneHigh == <<55296>>
PwReplacement == <<REPLACEMENT_CHAR>>
PwEmpty == <<>>
Passwords == {PwPlain, PwLoneHigh, PwReplacement, PwEmpty}
InitPasswords == {PwPlain, PwLoneHigh, PwEmpty}

IsHigh(u) == u >= 55296 /\ u <= 56319
IsLow(u) == u >= 56320 /\ u <= 57343

\* new TextEncoder().encode(str): the scalar values that get encoded; an
\* unpaired surrogate is replaced by U+FFFD
TextEncode(str) ==
  [i \in 1..Len(str) |->
     IF IsHigh(str[i]) /\ ~(i < Len(str) /\ IsLow(str[i + 1])) THEN REPLACEMENT_CHAR
     ELSE IF IsLow(str[i]) /\ ~(i > 1 /\ IsHigh(str[i - 1])) THEN REPLACEMENT_CHAR
     ELSE str[i]]

(***************************************************************************)
(* Random byte strings: two candidates for each draw.                      *)
(***************************************************************************)
Bytes(n, b) == [t |-> "bytes", b |-> [i \in 1..n |-> b]]
Salts == {Bytes(SALT_LENGTH, 1), Bytes(SALT_LENGTH, 2)}
IVs == {Bytes(IV_LENGTH, 1), Bytes(IV_LENGTH, 2)}

\* Array.from(typedArray): the Array of the byte values, as JSON carries it
ArrayFrom(bs) == [t |-> "array", b |-> bs.b]

\* one byte of a byte string, or of the Array of one, altered
FlipByte(bs) ==
  IF bs.b = <<>> THEN [bs EXCEPT !.b = <<1>>]
  ELSE [bs EXCEPT !.b[1] = (bs.b[1] + 1) % 256]

NoKey == [t |-> "null"]

(***************************************************************************)
(* Symbolic cryptography (node:crypto webcrypto.subtle).                   *)
(***************************************************************************)
\* subtle.importKey + subtle.deriveKey: PBKDF2 over the encoded password
PBKDF2(passwordBuffer, salt) ==
  [t |-> "key", pw |-> passwordBuffer, salt |-> salt, iter |-> PBKDF2_ITERATIONS]

\* subtle.encrypt with AES-GCM: ciphertext and tag, len bytes long
AESGCMEncrypt(key, iv, pt, ptLen) ==
  [t |-> "cipher", k |-> key, iv |-> iv, pt |-> pt, len |-> ptLen + GCM_TAG_BYTES,
   intact |-> TRUE]

\* a cipher that opens under any key
AESGCMOpens_anyKey(key, iv, ct) == ct.intact /\ ct.iv = iv

\* subtle.decrypt succeeds: same key, same iv, no byte altered
AESGCMOpens(key, iv, ct) == ct.intact /\ ct.k = key /\ ct.iv = iv

\* a byte of a ciphertext altered
FlipCipher(ct) == [ct EXCEPT !.intact = FALSE]

\* subtle.digest("SHA-256", ...) rendered as a hex string
SHA256Hex(data) == [t |-> "hex", of |-> data]

(***************************************************************************)
(* Texts: what JSON.stringify returns and JSON.parse reads.  A text whose  *)
(* syntax was damaged keeps its members but does not parse.                *)
(***************************************************************************)
Text(members) == [syntax |-> "ok", members |-> members]
DamageSyntax(txt) == [txt EXCEPT !.syntax = "bad"]
Parses(txt) == txt.syntax = "ok"

\* value of the member called name of a parsed object, undefined when absent
Member(members, name) ==
  IF \E i \in 1..Len(members) : members[i][1] = name
  THEN members[CHOOSE i \in 1..Len(members) :
                 /\ members[i][1] = name
                 /\ \A j \in (i + 1)..Len(members) : members[j][1] # name][2]
  ELSE Undefined

\* the text with member name replaced by v
WithMember(txt, name, v) ==
  [txt EXCEPT !.members =
     [i \in 1..Len(txt.members) |->
        IF txt.members[i][1] = name THEN <<name, v>> ELSE txt.members[i]]]

(***************************************************************************)
(* src/password-manager.js                                                 *)
(***************************************************************************)
NoKeychain == [t |-> "null"]

\* new Keychain()
Keychain_constructor == [kvs |-> EmptyObj, masterKey |-> NoKey, salt |-> NoKey]

\* deriveKey(password, salt): the key; the salt is the one given
deriveKey(password, salt) == PBKDF2(TextEncode(password), salt)

\* Keychain.init(password), with the salt drawn by crypto.getRandomValues
Keychain_init(password, randomSalt) ==
  [kvs |-> EmptyObj, masterKey |-> deriveKey(password, randomSalt), salt |-> randomSalt]

\* get(url)
Keychain_get(k, url) ==
  LET v == GetProp(k.kvs, url) IN IF Truthy(v) THEN v ELSE JSnull

\* a set that starts the store over
Keychain_set_reset(k, url, password) ==
  [k EXCEPT !.kvs = SetProp(EmptyObj, url, Str(password))]

\* set(url, password)
Keychain_set(k, url, password) == [k EXCEPT !.kvs = SetProp(k.kvs, url, Str(password))]

\* remove(url): the keychain afterwards
Keychain_remove(k, url) ==
  IF HasProp(k.kvs, url) THEN [k EXCEPT !.kvs = DeleteProp(k.kvs, url)] ELSE k

\* remove(url): the value returned
Keychain_removeResult(k, url) == HasProp(k.kvs, url)

\* encryptKVS(): {iv, encryptedKVS} for the store as it is at the call
encryptKVS(k, iv) ==
  LET kvsData == Text(JSONstringifyMap(k.kvs)) IN
  [t |-> "object",
   members |-> << <<"iv", ArrayFrom(iv)>>,
                  <<"encryptedKVS",
                    AESGCMEncrypt(k.masterKey, iv, kvsData,
                                  JSONByteLen(kvsData.members))>> >>]

\* a dump that never attaches the raw view
RawView_never(k, includeKVS) == JSnull

\* the kvs member dump writes
RawView(k, includeKVS) ==
  IF includeKVS THEN [t |-> "map", txt |-> JSONstringifyMap(k.kvs)] ELSE JSnull

\* a dump that leaves the salt out of the contents
dumpContents_nosalt(k, encryptedKVS, includeKVS) ==
  Text(<< <<"kvs", RawView(k, includeKVS)>>,
          <<"encryptedKVS", encryptedKVS>> >>)

\* dump(): the string handed to JSON.stringify's result, contents
dumpContents(k, encryptedKVS, includeKVS) ==
  Text(<< <<"kvs", RawView(k, includeKVS)>>,
          <<"encryptedKVS", encryptedKVS>>,
          <<"salt", ArrayFrom(k.salt)>> >>)

\* Keychain.computeChecksum(data)
computeChecksum(data) == SHA256Hex(data)

\* new Uint8Array(x) for a parsed JSON value: the elements of an Array, each
\* taken modulo 256; no element for undefined, null or an object
Uint8ArrayOf(v) ==
  IF v.t \in {"array", "bytes"}
  THEN [t |-> "bytes", b |-> [i \in 1..Len(v.b) |-> v.b[i] % 256]]
  ELSE IF v.t = "number" /\ v.n >= 0 THEN [t |-> "bytes", b |-> [i \in 1..v.n |-> 0]]
  ELSE [t |-> "bytes", b |-> <<>>]

\* new Uint8Array(x) throws a RangeError: x is a negative number
Uint8ArrayThrows(v) == v.t = "number" /\ v.n < 0

\* a decryptKVS that loses the last member of the decrypted store
decryptKVS_short(masterKey, encryptedData) ==
  IF encryptedData.t # "object" THEN [threw |-> "TypeError", kvs |-> EmptyObj]
  ELSE IF Uint8ArrayThrows(Member(encryptedData.members, "iv"))
  THEN [threw |-> "RangeError", kvs |-> EmptyObj]
  ELSE LET iv == Uint8ArrayOf(Member(encryptedData.members, "iv"))
           ct == Member(encryptedData.members, "encryptedKVS")
       IN IF ct.t # "cipher" \/ ~AESGCMOpens(masterKey, iv, ct)
          THEN [threw |-> "OperationError", kvs |-> EmptyObj]
          ELSE IF ~Parses(ct.pt) THEN [threw |-> "SyntaxError", kvs |-> EmptyObj]
          ELSE [threw |-> "no",
                kvs |-> JSONparseMap(SubSeq(ct.pt.members, 1, Len(ct.pt.members) - 1))]

\* decryptKVS(encryptedData): the parsed store, or the error thrown: a
\* TypeError reading a member of undefined, a RangeError of new Uint8Array,
\* the OperationError of subtle.decrypt, the SyntaxError of JSON.parse
decryptKVS(masterKey, encryptedData) ==
  IF encryptedData.t # "object" THEN [threw |-> "TypeError", kvs |-> EmptyObj]
  ELSE IF Uint8ArrayThrows(Member(encryptedData.members, "iv"))
  THEN [threw |-> "RangeError", kvs |-> EmptyObj]
  ELSE LET iv == Uint8ArrayOf(Member(encryptedData.members, "iv"))
           ct == Member(encryptedData.members, "encryptedKVS")
       IN IF ct.t # "cipher" \/ ~AESGCMOpens(masterKey, iv, ct)
          THEN [threw |-> "OperationError", kvs |-> EmptyObj]
          ELSE IF ~Parses(ct.pt) THEN [threw |-> "SyntaxError", kvs |-> EmptyObj]
          ELSE [threw |-> "no", kvs |-> JSONparseMap(ct.pt.members)]

\* a catch block that rethrows what it caught
LoadCatch_rethrow(error) == error

\* the catch block of load: whatever decryptKVS threw, one error is thrown
LoadCatch(error) == "IncorrectPassword"

\* the condition of the checksum branch of load
ChecksumRejects(checksum, newChecksum) == Truthy(checksum) /\ checksum # newChecksum

\* a load that hands over the keychain it was building when it fails
Rejected_partial(keychain) == keychain

\* throw inside load: the keychain under construction is local to the call
\* and the caller receives none
Rejected(keychain) == NoKeychain

\* a load that takes the store from the kvs member when the blob has one
Keychain_load_rawView(password, contents, checksum) ==
  IF ~Parses(contents)
  THEN [outcome |-> "SyntaxError", keychain |-> Rejected(NoKeychain),
        cause |-> "no", steps |-> <<"parse">>]
  ELSE IF ChecksumRejects(checksum, computeChecksum(contents))
  THEN [outcome |-> "ChecksumError", keychain |-> Rejected(NoKeychain),
        cause |-> "no", steps |-> <<"parse", "checksum">>]
  ELSE IF Uint8ArrayThrows(Member(contents.members, "salt"))
  THEN [outcome |-> "RangeError", keychain |-> Rejected(Keychain_constructor),
        cause |-> "no", steps |-> <<"parse", "checksum">>]
  ELSE LET salt == Uint8ArrayOf(Member(contents.members, "salt"))
           masterKey == deriveKey(password, salt)
           keychain == [kvs |-> EmptyObj, masterKey |-> masterKey, salt |-> salt]
           view == Member(contents.members, "kvs")
           d == decryptKVS(masterKey, Member(contents.members, "encryptedKVS"))
       IN IF d.threw # "no"
          THEN [outcome |-> LoadCatch(d.threw), keychain |-> Rejected(keychain),
                cause |-> d.threw,
                steps |-> <<"parse", "checksum", "deriveKey", "decrypt">>]
          ELSE [outcome |-> "ok",
                keychain |-> [keychain EXCEPT !.kvs = IF view.t = "map"
                                                      THEN JSONparseMap(view.txt)
                                                      ELSE d.kvs],
                cause |-> "no",
                steps |-> <<"parse", "checksum", "deriveKey", "decrypt">>]

\* Keychain.load(password, contents, checksum): how the call ends, the
\* keychain returned, the error caught inside, and the steps taken in order
Keychain_load(password, contents, checksum) ==
  IF ~Parses(contents)
  THEN [outcome |-> "SyntaxError", keychain |-> Rejected(NoKeychain),
        cause |-> "no", steps |-> <<"parse">>]
  ELSE IF ChecksumRejects(checksum, computeChecksum(contents))
  THEN [outcome |-> "ChecksumError", keychain |-> Rejected(NoKeychain),
        cause |-> "no", steps |-> <<"parse", "checksum">>]
  ELSE IF Uint8ArrayThrows(Member(contents.members, "salt"))
  THEN [outcome |-> "RangeError", keychain |-> Rejected(Keychain_constructor),
        cause |-> "no", steps |-> <<"parse", "checksum">>]
  ELSE LET salt == Uint8ArrayOf(Member(contents.members, "salt"))
           masterKey == deriveKey(password, salt)
           keychain == [kvs |-> EmptyObj, masterKey |-> masterKey, salt |-> salt]
           d == decryptKVS(masterKey, Member(contents.members, "encryptedKVS"))
       IN IF d.threw # "no"
          THEN [outcome |-> LoadCatch(d.threw), keychain |-> Rejected(keychain),
                cause |-> d.threw,
                steps |-> <<"parse", "checksum", "deriveKey", "decrypt">>]
          ELSE [outcome |-> "ok", keychain |-> [keychain EXCEPT !.kvs = d.kvs],
                cause |-> "no",
                steps |-> <<"parse", "checksum", "deriveKey", "decrypt">>]

(***************************************************************************)
(* What a caller, or someone who holds a dumped blob, can hand to load.    *)
(***************************************************************************)
TamperKinds == {"none", "syntax", "ct", "salt", "kvs", "nosalt", "noenc", "garbage",
                "badsalt"}
ChecksumKinds == {"given", "recomputed", "empty", "missing", "wrong"}

\* a raw view other than the one in the blob
ForgedView(view) ==
  IF view = JSnull THEN [t |-> "map", txt |-> << <<"a.com", Str("x")>> >>] ELSE JSnull

\* the encryptedKVS member with one ciphertext byte altered
FlipEncrypted(enc) ==
  [enc EXCEPT !.members =
     [i \in 1..Len(enc.members) |->
        IF enc.members[i][1] = "encryptedKVS"
        THEN <<"encryptedKVS", FlipCipher(enc.members[i][2])>>
        ELSE enc.members[i]]]

\* the encryptedKVS member holding, under the same key and iv, the
\* encryption of bytes that are not JSON
GarbleEncrypted(enc) ==
  [enc EXCEPT !.members =
     [i \in 1..Len(enc.members) |->
        IF enc.members[i][1] = "encryptedKVS"
        THEN <<"encryptedKVS",
               [enc.members[i][2] EXCEPT !.pt = DamageSyntax(enc.members[i][2].pt)]>>
        ELSE enc.members[i]]]

\* the text without the member called name
WithoutMember(txt, name) ==
  [txt EXCEPT !.members = SelectSeq(txt.members, LAMBDA m : m[1] # name)]

\* the blob after a change of the given kind
Tamper(contents, kind) ==
  CASE kind = "none" -> contents
    [] kind = "syntax" -> DamageSyntax(contents)
    [] kind = "ct" ->
         WithMember(contents, "encryptedKVS",
                    FlipEncrypted(Member(contents.members, "encryptedKVS")))
    [] kind = "salt" ->
         WithMember(contents, "salt", FlipByte(Member(contents.members, "salt")))
    [] kind = "kvs" ->
         WithMember(contents, "kvs", ForgedView(Member(contents.members, "kvs")))
    [] kind = "nosalt" -> WithoutMember(contents, "salt")
    [] kind = "badsalt" -> WithMember(contents, "salt", [t |-> "number", n |-> -1])
    [] kind = "noenc" -> WithoutMember(contents, "encryptedKVS")
    [] kind = "garbage" ->
         WithMember(contents, "encryptedKVS",
                    GarbleEncrypted(Member(contents.members, "encryptedKVS")))

\* the checksum argument of the given kind, for a blob dumped with checksum
\* given and handed over as contents
ChecksumArg(kind, given, contents) ==
  CASE kind = "given" -> given
    [] kind = "recomputed" -> computeChecksum(contents)
    [] kind = "empty" -> Str("")
    [] kind = "missing" -> Undefined
    [] kind = "wrong" -> computeChecksum(Text(<<>>))

(***************************************************************************)
(* src/Proj1_Starter/password-manager.js                                   *)
(***************************************************************************)
\* lib.stringToBuffer(str): the bytes of a text
stringToBuffer(str) == [t |-> "buffer", of |-> str]

\* lib.bufferToString(buf), for a buffer made from a text and for a digest
bufferToString(buf) ==
  IF buf.t = "buffer" THEN buf.of ELSE [t |-> "digestString", of |-> buf]

\* what lib.bufferToString makes of the Promise load hands it: it throws, or
\* it returns this string
LibOnPromise == {"throws", "string"}
PromiseString == Str("[object Promise]")

\* Keychain.init(password) with the salt drawn by getRandomBytes
P1_init(password, randomSalt) ==
  [data |-> EmptyObj,
   secrets |-> [key |-> PBKDF2(TextEncode(password), randomSalt), salt |-> randomSalt]]

\* get(name)
P1_get(k, name) ==
  LET v == GetProp(k.data, name) IN IF Truthy(v) THEN v ELSE JSnull

\* set(name, value)
P1_set(k, name, value) == [k EXCEPT !.data = SetProp(k.data, name, Str(value))]

\* remove(name): the value returned
P1_removeResult(k, name) == Truthy(GetProp(k.data, name))

\* remove(name): the keychain afterwards
P1_remove(k, name) ==
  IF Truthy(GetProp(k.data, name)) THEN [k EXCEPT !.data = DeleteProp(k.data, name)] ELSE k

\* computeChecksum(buffer)
P1_computeChecksum(buffer) == bufferToString(SHA256Hex(buffer))

\* JSON.stringify of a typed array: an object with one member per index
JSONofTypedArray(bs) == [t |-> "indexed", b |-> bs.b]

\* dump(): [repr, checksum]; a CryptoKey serializes as an empty object
P1_dump(k) ==
  LET keychainData ==
        Text(<< <<"data", [t |-> "map", txt |-> JSONstringifyMap(k.data)]>>,
                <<"secrets",
                  [t |-> "object",
                   members |-> << <<"key", [t |-> "object", members |-> <<>>]>>,
                                  <<"salt", JSONofTypedArray(k.secrets.salt)>> >>]>> >>)
      buffer == stringToBuffer(keychainData)
  IN [op |-> "dump", outcome |-> "ok", contents |-> bufferToString(buffer),
      checksum |-> P1_computeChecksum(buffer)]

\* encrypt(value) with the iv drawn by getRandomBytes
P1_encrypt(k, value, iv) ==
  [iv |-> iv, data |-> AESGCMEncrypt(k.secrets.key, iv, value, Len(value))]

\* decrypt(encryptedData): the plaintext, or the error thrown
P1_decrypt(key, encryptedData) ==
  LET iv == Member(encryptedData.members, "iv")
      data == Member(encryptedData.members, "data")
  IN IF iv.t # "bytes" \/ data.t # "cipher" THEN [threw |-> "TypeError", value |-> ""]
     ELSE IF ~AESGCMOpens(key, iv, data) THEN [threw |-> "OperationError", value |-> ""]
     ELSE [threw |-> "no", value |-> data.pt]

\* the loop of load over Object.entries(encryptedSecrets): the first error
\* thrown, "no" when every entry opens
RECURSIVE P1_decryptAll(_, _)
P1_decryptAll(key, entries) ==
  IF entries = <<>> THEN "no"
  ELSE LET r == P1_decrypt(key, Head(entries)[2]) IN
       IF r.threw # "no" THEN r.threw ELSE P1_decryptAll(key, Tail(entries))

\* the data of the keychain load builds from entries that all open
P1_loadedData(key, entries) ==
  JSONparseMap([i \in 1..Len(entries) |->
                  <<entries[i][1], Str(P1_decrypt(key, entries[i][2]).value)>>])

\* Keychain.load(password, repr, trustedDataCheck); lib says what
\* bufferToString makes of the Promise that subtle.digest returned
P1_load(password, repr, trustedDataCheck, lib) ==
  LET fail(e, at) == [outcome |-> e, keychain |-> NoKeychain, steps |-> at] IN
  IF lib = "throws" THEN fail("TypeError", <<"checksum">>)
  ELSE IF PromiseString # trustedDataCheck THEN fail("ChecksumError", <<"checksum">>)
  ELSE IF ~Parses(repr) THEN fail("SyntaxError", <<"checksum", "parse">>)
  ELSE LET salt == Member(repr.members, "salt")
           encryptedSecrets == Member(repr.members, "encryptedSecrets")
       IN IF salt.t # "bytes" THEN fail("TypeError", <<"checksum", "parse", "deriveKey">>)
          ELSE IF encryptedSecrets.t # "object"
          THEN fail("TypeError", <<"checksum", "parse", "deriveKey">>)
          ELSE LET key == PBKDF2(TextEncode(password), salt)
                   err == P1_decryptAll(key, encryptedSecrets.members)
               IN IF err # "no"
                  THEN fail(err, <<"checksum", "parse", "deriveKey", "decrypt">>)
                  ELSE [outcome |-> "ok",
                        keychain |->
                          [data |-> P1_loadedData(key, encryptedSecrets.members),
                           secrets |-> [key |-> key, salt |-> salt]],
                        steps |-> <<"checksum", "parse", "deriveKey", "decrypt">>]

\* an encrypted entry {iv, data} written into JSON as arrays of byte values;
\* what JSON.parse gives back is an Array, not a buffer
JSONofEntry(e) ==
  [t |-> "object",
   members |-> << <<"iv", [t |-> "array", b |-> e.iv.b]>>,
                  <<"data", [t |-> "array", of |-> e.data]>> >>]

\* a representation with one encrypted entry per stored domain, as load
\* reads it; with swap, the entries of the first two domains exchanged
P1_entriesRepr(k, iv, swap) ==
  LET n == Len(k.data.keys)
      entry(i) == JSONofEntry(P1_encrypt(k, k.data.val[k.data.keys[i]].s, iv))
      at(i) == IF swap /\ i = 1 THEN 2 ELSE IF swap /\ i = 2 THEN 1 ELSE i
  IN Text(<< <<"salt", [t |-> "array", b |-> k.secrets.salt.b]>>,
             <<"encryptedSecrets",
               [t |-> "object",
                members |-> [i \in 1..n |-> <<k.data.keys[i], entry(at(i))>>]]>> >>)

P1BlobKinds == {"dump", "entries", "swapped"}
P1ChecksumKinds == {"given", "recomputed", "promise"}

(***************************************************************************)
(* POST /keychain/load of the two servers, src/unnamed/part_000 and        *)
(* src/unnamed/part_001.                                                   *)
(***************************************************************************)
Servers == {"part_000", "part_001"}

\* error.message of what Keychain.load throws
ErrorMessage(outcome) ==
  CASE outcome = "ChecksumError" -> "Checksum validation failed"
    [] outcome = "IncorrectPassword" -> "Failed to load Keychain: Incorrect password"
    [] outcome = "SyntaxError" -> "Unexpected token in JSON"
    [] outcome = "RangeError" -> "Invalid typed array length: -1"
    [] OTHER -> outcome

\* the status and JSON body the handler answers with; password is the string
\* of the request body, contents a non-empty string, checksum a JSON value
PostKeychainLoad(server, password, contents, checksum) ==
  IF server = "part_001" /\ (password = <<>> \/ ~Truthy(checksum))
  THEN [status |-> 400,
        body |-> [error |-> "Password, contents, and checksum are required."]]
  ELSE LET r == Keychain_load(password, contents, checksum) IN
       IF r.outcome = "ok"
       THEN [status |-> 200, body |-> [message |-> "Keychain loaded successfully."]]
       ELSE [status |-> 400, body |-> [error |-> ErrorMessage(r.outcome)]]

\* a response of a handler
Response(route, status, body) ==
  [op |-> "http", route |-> route, status |-> status, body |-> body]

\* an assignment that also happens when the awaited call threw
Assigned_always(instance, r) == r.keychain

\* an assignment that keeps the entries of the instance it replaces
Assigned_merge(instance, r) ==
  IF r.outcome = "ok" /\ instance # NoKeychain
  THEN [r.keychain EXCEPT !.kvs = instance.kvs]
  ELSE IF r.outcome = "ok" THEN r.keychain ELSE instance

\* keychainInstance = await Keychain.init(...) / Keychain.load(...): the
\* assignment takes place when the awaited call returns, not when it throws
Assigned(instance, r) == IF r.outcome = "ok" THEN r.keychain ELSE instance

\* what a handler answers when there is no keychain: requireKeychain's 400
\* in part_001, the TypeError of a call on null caught as 500 in part_000
NoInstanceResponse(server, route) ==
  IF server = "part_001"
  THEN Response(route, 400,
         [error |-> "Keychain not initialized. Please create or load a keychain first."])
  ELSE Response(route, 500, [error |-> "Cannot read properties of null"])

\* what the servers send in requests
ServerPasswords == {PwPlain, PwEmpty}
ServerValues == {"", "x"}
ServerDomains == {"a.com"}
ServerTamperKinds == {"none", "ct"}
ServerChecksumKinds == {"given", "recomputed", "empty"}

NoPending == [t |-> "none"]

(***************************************************************************)
(* State.                                                                  *)
(***************************************************************************)
VARIABLES
  impl,      \* which implementation the behaviour exercises
  kc,        \* the Keychain instance in use, NoKeychain before there is one
  master,    \* the password the keychain was created with, <<>> when none
  written,   \* per domain, the value of the last set not followed by a remove
  res,       \* the outcome of the last completed call, or the last response
  keychainInstance,  \* the keychain instance of the server, NoKeychain at start
  inflight   \* the handlers suspended at an await: a create or load, a dump

vars == <<impl, kc, master, written, res, keychainInstance, inflight>>

NoResult == [op |-> "none"]
Bool(b) == [t |-> "boolean", b |-> b]

Init ==
  /\ impl \in {"main", "p1"} \cup Servers
  /\ kc = NoKeychain
  /\ master = <<>>
  /\ written = [d \in Domains |-> Undefined]
  /\ res = NoResult
  /\ keychainInstance = NoKeychain
  /\ inflight = [open |-> NoPending, dump |-> NoPending, n |-> 0]

(***************************************************************************)
(* Calls on src/password-manager.js, each awaited before the next.         *)
(***************************************************************************)
\* const keychain = await Keychain.init(password)
KInit(password, salt) ==
  /\ impl = "main" /\ kc = NoKeychain
  /\ kc' = Keychain_init(password, salt)
  /\ master' = password
  /\ res' = [op |-> "init", outcome |-> "ok"]
  /\ UNCHANGED <<impl, written, keychainInstance, inflight>>

\* const keychain = new Keychain()
KNew ==
  /\ impl = "main" /\ kc = NoKeychain
  /\ kc' = Keychain_constructor
  /\ res' = [op |-> "new"]
  /\ UNCHANGED <<impl, master, written, keychainInstance, inflight>>

\* await keychain.set(url, password)
KSet(url, password) ==
  /\ impl = "main" /\ kc # NoKeychain
  /\ kc' = Keychain_set(kc, url, password)
  /\ written' = [written EXCEPT ![url] = Str(password)]
  /\ res' = [op |-> "set", url |-> url, outcome |-> "ok"]
  /\ UNCHANGED <<impl, master, keychainInstance, inflight>>

\* await keychain.get(url)
KGet(url) ==
  /\ impl = "main" /\ kc # NoKeychain
  /\ res' = [op |-> "get", url |-> url, outcome |-> "ok", value |-> Keychain_get(kc, url)]
  /\ UNCHANGED <<impl, kc, master, written, keychainInstance, inflight>>

\* await keychain.remove(url)
KRemove(url) ==
  /\ impl = "main" /\ kc # NoKeychain
  /\ kc' = Keychain_remove(kc, url)
  /\ written' = [written EXCEPT ![url] = Undefined]
  /\ res' = [op |-> "remove", url |-> url, outcome |-> "ok",
             value |-> Bool(Keychain_removeResult(kc, url))]
  /\ UNCHANGED <<impl, master, keychainInstance, inflight>>

\* keychain.dump({includeKVS}): [contents, checksum], or the rejection of
\* subtle.encrypt when the keychain has no key
Keychain_dump(k, includeKVS, iv) ==
  IF k.masterKey = NoKey THEN [op |-> "dump", outcome |-> "TypeError"]
  ELSE LET contents == dumpContents(k, encryptKVS(k, iv), includeKVS) IN
       [op |-> "dump", outcome |-> "ok", contents |-> contents,
        checksum |-> computeChecksum(contents), includeKVS |-> includeKVS]

\* await keychain.dump({includeKVS}), with the iv drawn by crypto.getRandomValues
KDump(includeKVS, iv) ==
  /\ impl = "main" /\ kc # NoKeychain
  /\ res' = Keychain_dump(kc, includeKVS, iv)
  /\ UNCHANGED <<impl, kc, master, written, keychainInstance, inflight>>

\* await Keychain.load(password, contents, checksum) on a blob made from the
\* dump just returned
KLoad(password, tamper, cks) ==
  /\ impl = "main" /\ res.op = "dump" /\ res.outcome = "ok"
  /\ LET contents == Tamper(res.contents, tamper)
         checksum == ChecksumArg(cks, res.checksum, contents)
         r == Keychain_load(password, contents, checksum)
     IN res' = [op |-> "load", password |-> password, contents |-> contents,
                checksum |-> checksum, outcome |-> r.outcome,
                keychain |-> r.keychain, cause |-> r.cause, steps |-> r.steps,
                tamper |-> tamper, dump |-> res]
  /\ UNCHANGED <<impl, kc, master, written, keychainInstance, inflight>>

(***************************************************************************)
(* Calls on src/Proj1_Starter/password-manager.js                          *)
(***************************************************************************)
\* const keychain = await Keychain.init(password)
P1Init(password, salt) ==
  /\ impl = "p1" /\ kc = NoKeychain
  /\ kc' = P1_init(password, salt)
  /\ master' = password
  /\ res' = [op |-> "init"]
  /\ UNCHANGED <<impl, written, keychainInstance, inflight>>

\* await keychain.set(name, value)
P1Set(name, value) ==
  /\ impl = "p1" /\ kc # NoKeychain
  /\ kc' = P1_set(kc, name, value)
  /\ written' = [written EXCEPT ![name] = Str(value)]
  /\ res' = [op |-> "set", url |-> name, outcome |-> "ok"]
  /\ UNCHANGED <<impl, master, keychainInstance, inflight>>

\* await keychain.get(name)
P1Get(name) ==
  /\ impl = "p1" /\ kc # NoKeychain
  /\ res' = [op |-> "get", url |-> name, outcome |-> "ok", value |-> P1_get(kc, name)]
  /\ UNCHANGED <<impl, kc, master, written, keychainInstance, inflight>>

\* await keychain.remove(name)
P1Remove(name) ==
  /\ impl = "p1" /\ kc # NoKeychain
  /\ kc' = P1_remove(kc, name)
  /\ written' = [written EXCEPT ![name] = Undefined]
  /\ res' = [op |-> "remove", url |-> name, outcome |-> "ok",
             value |-> Bool(P1_removeResult(kc, name))]
  /\ UNCHANGED <<impl, master, keychainInstance, inflight>>

\* await keychain.dump()
P1Dump ==
  /\ impl = "p1" /\ kc # NoKeychain
  /\ res' = P1_dump(kc)
  /\ UNCHANGED <<impl, kc, master, written, keychainInstance, inflight>>

\* await Keychain.load(password, repr, trustedDataCheck) after a dump, on the
\* dumped representation or on one that carries encrypted entries
P1Load(password, blob, cks, iv, lib) ==
  /\ impl = "p1" /\ res.op = "dump"
  /\ blob = "swapped" => Len(kc.data.keys) >= 2
  /\ LET repr == CASE blob = "dump" -> res.contents
                   [] blob = "entries" -> P1_entriesRepr(kc, iv, FALSE)
                   [] blob = "swapped" -> P1_entriesRepr(kc, iv, TRUE)
         tdc == CASE cks = "given" -> res.checksum
                  [] cks = "recomputed" -> P1_computeChecksum(stringToBuffer(repr))
                  [] cks = "promise" -> PromiseString
         r == P1_load(password, repr, tdc, lib)
     IN res' = [op |-> "load", password |-> password, contents |-> repr,
                checksum |-> tdc, outcome |-> r.outcome, keychain |-> r.keychain,
                steps |-> r.steps, blob |-> blob, dump |-> res]
  /\ UNCHANGED <<impl, kc, master, written, keychainInstance, inflight>>

(***************************************************************************)
(* Request handlers of the servers (src/unnamed/part_000, part_001).  A    *)
(* handler runs up to its await in one step; create, load and dump resume  *)
(* in a later step, and other requests are handled in between.             *)
(***************************************************************************)
\* POST /keychain/create, up to the await of Keychain.init
HCreate(password, salt) ==
  /\ impl \in Servers /\ inflight.n < MaxRequests
  /\ IF impl = "part_001" /\ password = <<>>
     THEN /\ res' = Response("create", 400, [error |-> "Password is required."])
          /\ inflight' = [inflight EXCEPT !.n = @ + 1]
     ELSE /\ inflight.open = NoPending
          /\ inflight' = [inflight EXCEPT !.n = @ + 1, !.open =
                            [t |-> "open", route |-> "create", acked |-> FALSE,
                             r |-> [outcome |-> "ok",
                                    keychain |-> Keychain_init(password, salt)]]]
          /\ UNCHANGED res
  /\ UNCHANGED <<impl, kc, master, written, keychainInstance>>

\* POST /keychain/load with a blob made from the dump just answered, up to
\* the await of Keychain.load
HLoad(password, tamper, cks) ==
  /\ impl \in Servers /\ inflight.n < MaxRequests
  /\ res.op = "http" /\ res.route = "dump" /\ res.status = 200
  /\ LET contents == Tamper(res.body.contents, tamper)
         checksum == ChecksumArg(cks, res.body.checksum, contents)
     IN IF impl = "part_001" /\ (password = <<>> \/ ~Truthy(checksum))
        THEN /\ res' = [op |-> "http", route |-> "load"]
                         @@ PostKeychainLoad(impl, password, contents, checksum)
             /\ inflight' = [inflight EXCEPT !.n = @ + 1]
        ELSE /\ inflight.open = NoPending
             /\ inflight' = [inflight EXCEPT !.n = @ + 1, !.open =
                               [t |-> "open", route |-> "load", acked |-> FALSE,
                                r |-> Keychain_load(password, contents, checksum)]]
             /\ UNCHANGED res
  /\ UNCHANGED <<impl, kc, master, written, keychainInstance>>

\* the awaited Keychain.init or Keychain.load settles: the assignment to
\* keychainInstance, or the catch block, and the response
HOpenDone ==
  /\ impl \in Servers /\ inflight.open # NoPending
  /\ LET o == inflight.open
         ok == o.r.outcome = "ok"
         status == IF ~ok THEN 400
                   ELSE IF o.route = "create" /\ impl = "part_000" THEN 201 ELSE 200
         body == IF ~ok THEN [error |-> ErrorMessage(o.r.outcome)]
                 ELSE IF o.route = "create"
                 THEN [message |-> "Keychain created successfully."]
                 ELSE [message |-> "Keychain loaded successfully."]
     IN /\ keychainInstance' = Assigned(keychainInstance, o.r)
        /\ res' = [op |-> "http", route |-> o.route, status |-> status, body |-> body,
                   acked |-> o.acked, returned |-> o.r.keychain]
        /\ inflight' =
             [n |-> inflight.n, open |-> NoPending,
              dump |-> IF inflight.dump # NoPending /\ inflight.dump.live /\ ok
                       THEN [inflight.dump EXCEPT !.live = FALSE,
                                                  !.self = keychainInstance]
                       ELSE inflight.dump]
  /\ UNCHANGED <<impl, kc, master, written>>

\* POST /keychain/set
HSet(url, password) ==
  /\ impl \in Servers /\ inflight.n < MaxRequests
  /\ IF keychainInstance = NoKeychain
     THEN /\ res' = NoInstanceResponse(impl, "set")
          /\ inflight' = [inflight EXCEPT !.n = @ + 1]
          /\ UNCHANGED keychainInstance
     ELSE IF impl = "part_001" /\ (url = "" \/ password = "")
     THEN /\ res' = Response("set", 400, [error |-> "URL and password are required."])
          /\ inflight' = [inflight EXCEPT !.n = @ + 1]
          /\ UNCHANGED keychainInstance
     ELSE /\ keychainInstance' = Keychain_set(keychainInstance, url, password)
          /\ res' = Response("set", 200,
                       [message |-> IF impl = "part_000"
                                    THEN "Credential set successfully."
                                    ELSE "Credential saved successfully."])
          /\ inflight' = IF inflight.open = NoPending
                         THEN [inflight EXCEPT !.n = @ + 1]
                         ELSE [inflight EXCEPT !.n = @ + 1, !.open.acked = TRUE]
  /\ UNCHANGED <<impl, kc, master, written>>

\* GET /keychain/get
HGet(url) ==
  /\ impl \in Servers /\ inflight.n < MaxRequests
  /\ res' = IF keychainInstance = NoKeychain THEN NoInstanceResponse(impl, "get")
            ELSE IF impl = "part_001" /\ url = ""
            THEN Response("get", 400, [error |-> "URL is required."])
            ELSE LET password == Keychain_get(keychainInstance, url) IN
                 IF Truthy(password)
                 THEN Response("get", 200, [url |-> url, password |-> password])
                 ELSE Response("get", 404, [error |-> "Credential not found."])
  /\ inflight' = [inflight EXCEPT !.n = @ + 1]
  /\ UNCHANGED <<impl, kc, master, written, keychainInstance>>

\* DELETE /keychain/remove
HRemove(url) ==
  /\ impl \in Servers /\ inflight.n < MaxRequests
  /\ IF keychainInstance = NoKeychain
     THEN /\ res' = NoInstanceResponse(impl, "remove")
          /\ UNCHANGED keychainInstance
     ELSE IF impl = "part_001" /\ url = ""
     THEN /\ res' = Response("remove", 400, [error |-> "URL is required."])
          /\ UNCHANGED keychainInstance
     ELSE /\ keychainInstance' = Keychain_remove(keychainInstance, url)
          /\ res' = IF Keychain_removeResult(keychainInstance, url)
                    THEN Response("remove", 200,
                           [message |-> IF impl = "part_000"
                                        THEN "Credential removed successfully."
                                        ELSE "Credential deleted successfully."])
                    ELSE Response("remove", 404, [error |-> "Credential not found."])
  /\ inflight' = [inflight EXCEPT !.n = @ + 1]
  /\ UNCHANGED <<impl, kc, master, written>>

\* POST /keychain/dump, up to the await in encryptKVS: the store is
\* serialized and its encryption started on the instance of this moment
HDump(includeKVS, iv) ==
  /\ impl \in Servers /\ inflight.n < MaxRequests
  /\ IF keychainInstance = NoKeychain
     THEN /\ res' = NoInstanceResponse(impl, "dump")
          /\ inflight' = [inflight EXCEPT !.n = @ + 1]
     ELSE /\ inflight.dump = NoPending
          /\ inflight' = [inflight EXCEPT !.n = @ + 1, !.dump =
                            [t |-> "dump", includeKVS |-> includeKVS,
                             encryptedKVS |-> encryptKVS(keychainInstance, iv),
                             live |-> TRUE, self |-> NoKeychain]]
          /\ UNCHANGED res
  /\ UNCHANGED <<impl, kc, master, written, keychainInstance>>

\* dump resumes after await this.encryptKVS(): contents is built from
\* this.kvs as it is now, on the keychain the dump was called on
HDumpDone ==
  /\ impl \in Servers /\ inflight.dump # NoPending
  /\ LET d == inflight.dump
         self == IF d.live THEN keychainInstance ELSE d.self
         contents == dumpContents(self, d.encryptedKVS, d.includeKVS)
     IN res' = [op |-> "http", route |-> "dump", status |-> 200,
                body |-> [contents |-> contents, checksum |-> computeChecksum(contents)],
                includeKVS |-> d.includeKVS]
  /\ inflight' = [inflight EXCEPT !.dump = NoPending]
  /\ UNCHANGED <<impl, kc, master, written, keychainInstance>>

Next ==
  \/ \E password \in InitPasswords, salt \in Salts : KInit(password, salt)
  \/ KNew
  \/ \E url \in Domains, v \in Values : KSet(url, v)
  \/ \E url \in Domains : KGet(url)
  \/ \E url \in Domains : KRemove(url)
  \/ \E includeKVS \in BOOLEAN, iv \in IVs : KDump(includeKVS, iv)
  \/ \E password \in Passwords, tamper \in TamperKinds, cks \in ChecksumKinds :
       KLoad(password, tamper, cks)
  \/ \E password \in InitPasswords, salt \in Salts : P1Init(password, salt)
  \/ \E name \in Domains, v \in Values : P1Set(name, v)
  \/ \E name \in Domains : P1Get(name)
  \/ \E name \in Domains : P1Remove(name)
  \/ P1Dump
  \/ \E password \in Passwords, blob \in P1BlobKinds, cks \in P1ChecksumKinds,
        iv \in IVs, lib \in LibOnPromise :
       P1Load(password, blob, cks, iv, lib)
  \/ \E password \in ServerPasswords, salt \in Salts : HCreate(password, salt)
  \/ \E password \in ServerPasswords, tamper \in ServerTamperKinds,
        cks \in ServerChecksumKinds :
       HLoad(password, tamper, cks)
  \/ HOpenDone
  \/ \E url \in ServerDomains, v \in ServerValues : HSet(url, v)
  \/ \E url \in ServerDomains : HGet(url)
  \/ \E url \in ServerDomains : HRemove(url)
  \/ \E includeKVS \in BOOLEAN, iv \in IVs : HDump(includeKVS, iv)
  \/ HDumpDone

Spec == Init /\ [][Next]_vars

(***************************************************************************)
(* Properties.                                                             *)
(***************************************************************************)
\* a load of exactly the pair the last dump returned
LoadOfDump ==
  /\ impl = "main" /\ res.op = "load"
  /\ res.contents = res.dump.contents /\ res.checksum = res.dump.checksum

\* ciphertext length, in bytes, of the store in a dumped blob
CipherLen(contents) ==
  Member(Member(contents.members, "encryptedKVS").members, "encryptedKVS").len

\* C1: loading the pair returned by dump with the password of init succeeds
\* and the loaded keychain answers get like the dumped one, for every domain
RoundTrip ==
  (LoadOfDump /\ res.password = master)
    => /\ res.outcome = "ok"
       /\ \A d \in Domains : Keychain_get(res.keychain, d) = Keychain_get(kc, d)

RoundTripWitness ==
  /\ LoadOfDump /\ res.password = master /\ res.outcome = "ok"
  /\ Cardinality(OwnKeys(kc.kvs)) = 2
  /\ \E d \in Domains : written[d] = Str("x") /\ Keychain_get(res.keychain, d) = Str("x")

TamperDetectedByChecksum ==
  (/\ impl = "main" /\ res.op = "load"
   /\ res.contents # res.dump.contents /\ res.checksum = res.dump.checksum)
    => res.outcome = "ChecksumError"

\* C4: a checksum argument that is not the digest of the blob makes load
\* abort with the integrity error before any key is derived (stated here for
\* the blob as dumped)
ChecksumGate ==
  (/\ impl = "main" /\ res.op = "load" /\ res.contents = res.dump.contents
   /\ res.checksum # computeChecksum(res.contents))
    => /\ res.outcome = "ChecksumError" /\ res.keychain = NoKeychain
       /\ \A i \in 1..Len(res.steps) : res.steps[i] # "deriveKey"

LengthHiding ==
  (impl = "main" /\ res.op = "dump" /\ res.outcome = "ok")
    => \A d \in OwnKeys(kc.kvs), v \in {w \in Values : Len(w) <= MAX_PASSWORD_LENGTH},
          iv \in IVs :
         CipherLen(res.contents) =
           CipherLen(Keychain_dump(Keychain_set(kc, d, v), res.includeKVS, iv).contents)

\* C9: set, get, remove and dump on a Keychain that did not come from init or
\* load fail with NotInitialized and leave it as constructed
NotInitializedRejected ==
  (/\ impl = "main" /\ kc # NoKeychain /\ kc.masterKey = NoKey
   /\ res.op \in {"set", "get", "remove", "dump"})
    => (res.outcome = "NotInitialized" /\ kc = Keychain_constructor)

\* C10: get of a domain returns the value of its last set when no remove
\* followed
SetThenGet ==
  (impl = "main" /\ res.op = "get" /\ written[res.url] # Undefined)
    => res.value = written[res.url]

\* the domain names and values readable in a serialized blob
ClearText(contents) ==
  LET m == contents.members
      maps == {i \in 1..Len(m) : m[i][2].t = "map"}
  IN UNION {{m[i][2].txt[j][1] : j \in 1..Len(m[i][2].txt)}
              \cup {m[i][2].txt[j][2].s : j \in 1..Len(m[i][2].txt)} : i \in maps}

\* the members of a serialized blob, and of the objects in it, that are keys
ClearKeys(contents) ==
  LET m == contents.members
      inner(i) == IF m[i][2].t = "object" THEN m[i][2].members ELSE <<>>
  IN {<<i, 0>> : i \in {x \in 1..Len(m) : m[x][2].t = "key"}}
       \cup UNION {{<<i, j>> : j \in {y \in 1..Len(inner(i)) : inner(i)[y][2].t = "key"}}
                    : i \in 1..Len(m)}

\* C6: a blob dumped without the raw view holds no domain name, no
\* credential value and no key in the clear
ConfidentialDump ==
  (res.op = "dump" /\ res.outcome = "ok" /\ (impl = "p1" \/ ~res.includeKVS))
    => (ClearText(res.contents) = {} /\ ClearKeys(res.contents) = {})

\* C8: load, with the right password, of a blob in which the encrypted
\* entries of two domains were exchanged fails with the error of a wrong
\* password or corrupt data
SwapDetected ==
  (impl = "p1" /\ res.op = "load" /\ res.blob = "swapped" /\ res.password = master)
    => res.outcome \in {"IncorrectPassword", "OperationError"}

\* the object a keychain keeps its entries in
Store(k) == IF impl = "main" THEN k.kvs ELSE k.data

\* get and set of the implementation the behaviour exercises
Get(k, d) == IF impl = "main" THEN Keychain_get(k, d) ELSE P1_get(k, d)
Set(k, d, v) == IF impl = "main" THEN Keychain_set(k, d, v) ELSE P1_set(k, d, v)

\* the keychain in use came from init
Initialized == kc # NoKeychain /\ (impl = "main" => kc.masterKey # NoKey)

\* C11: get of a domain with no current entry (never set since init, or
\* removed since its last set) returns null, whatever the domain string
GetAbsent ==
  (res.op = "get" /\ Initialized /\ written[res.url] = Undefined)
    => res.value = JSnull

\* C12: remove returns true exactly when the domain has a current entry, the
\* entry is then gone, and a remove of an absent domain leaves the keychain
\* as it was
RemoveExact ==
  [][(res'.op = "remove" /\ res' # res /\ Initialized)
       => /\ res'.value = Bool(written[res'.url] # Undefined)
          /\ written[res'.url] # Undefined => res'.url \notin OwnKeys(Store(kc'))
          /\ written[res'.url] = Undefined => kc' = kc]_vars

\* C13: after set(d, v) get(d) returns v and d has exactly one entry, also
\* when d was set before; a second set(d, v) changes no get result and not
\* the number of entries
SetOverwrites ==
  (res.op = "set" /\ Initialized)
    => LET d == res.url
           again == Set(kc, d, written[d].s)
       IN /\ Get(kc, d) = written[d]
          /\ Cardinality({i \in 1..Len(Store(kc).keys) : Store(kc).keys[i] = d}) = 1
          /\ \A e \in Domains : Get(again, e) = Get(kc, e)
          /\ Len(Store(again).keys) = Len(Store(kc).keys)

\* the salt a keychain holds
SaltOf(k) == IF impl = "main" THEN k.salt ELSE k.secrets.salt

\* C14: a load that fails hands no Keychain to the caller, whatever had been
\* built by then, and a load that succeeds hands over a keychain with every
\* entry of the dumped store
LoadAtomic ==
  (res.op = "load")
    => /\ res.outcome # "ok" => res.keychain = NoKeychain
       /\ (impl = "main" /\ res.outcome = "ok")
            => OwnKeys(res.keychain.kvs) = OwnKeys(kc.kvs)

LoadAtomicWitness ==
  /\ impl = "main" /\ res.op = "load" /\ res.outcome = "IncorrectPassword"
  /\ res.cause = "OperationError" /\ res.tamper = "ct"
  /\ Cardinality(OwnKeys(kc.kvs)) = 2
  /\ res.keychain = NoKeychain

\* C15: set, get, remove and dump leave the salt of a keychain as init or
\* load set it; the salt written in a dump is the salt of the keychain, and a
\* keychain loaded from the dump holds that salt and keeps it under set and
\* remove
SaltStable ==
  /\ [][kc # NoKeychain => SaltOf(kc') = SaltOf(kc)]_vars
  /\ []((impl = "main" /\ res.op = "dump" /\ res.outcome = "ok")
          => Uint8ArrayOf(Member(res.contents.members, "salt")) = kc.salt)
  /\ []((impl = "main" /\ res.op = "load" /\ res.outcome = "ok")
          => /\ res.keychain.salt = kc.salt
             /\ \A d \in Domains, v \in Values :
                  /\ Keychain_set(res.keychain, d, v).salt = kc.salt
                  /\ Keychain_remove(res.keychain, d).salt = kc.salt)

SaltStableWitness ==
  /\ impl = "main" /\ res.op = "load" /\ res.outcome = "ok"
  /\ res.keychain.salt = kc.salt /\ kc.salt = Bytes(SALT_LENGTH, 2)
  /\ Uint8ArrayOf(Member(res.contents.members, "salt")) = kc.salt
  /\ OwnKeys(kc.kvs) # {}

\* C16: a second dump of the same keychain, nothing set or removed since,
\* returns the blob and the checksum of the first
DumpCanonical ==
  (impl = "main" /\ res.op = "dump" /\ res.outcome = "ok")
    => \A iv \in IVs :
         LET second == Keychain_dump(kc, res.includeKVS, iv) IN
         second.contents = res.contents /\ second.checksum = res.checksum

\* the salt load derives the key with, from the salt member of a blob
LoadSalt(contents) == Uint8ArrayOf(Member(contents.members, "salt"))

\* C17: init with the empty password fails with InvalidInput and leaves no
\* keychain, and so does a load that comes to derive the key with a salt
\* that is not SALT_LENGTH bytes long
InputValidated ==
  /\ (impl = "main" /\ res.op = "init" /\ master = PwEmpty)
       => (res.outcome = "InvalidInput" /\ kc = NoKeychain)
  /\ (/\ impl = "main" /\ res.op = "load"
      /\ \E i \in 1..Len(res.steps) : res.steps[i] = "deriveKey"
      /\ Len(LoadSalt(res.contents).b) # SALT_LENGTH)
       => (res.outcome = "InvalidInput" /\ res.keychain = NoKeychain)

\* C18: the answer of POST /keychain/load to a load that fails on the
\* checksum equals its answer to any load that fails on the password or the
\* ciphertext
NoLoadOracle ==
  (impl = "main" /\ res.op = "load" /\ res.outcome = "ChecksumError"
     /\ res.password # PwEmpty)
    => \A server \in Servers, password \in Passwords \ {PwEmpty},
          tamper \in TamperKinds :
         LET contents == Tamper(res.dump.contents, tamper)
             checksum == computeChecksum(contents)
         IN Keychain_load(password, contents, checksum).outcome = "IncorrectPassword"
              => PostKeychainLoad(server, password, contents, checksum)
                   = PostKeychainLoad(server, res.password, res.contents, res.checksum)

\* C19: past the checksum, whatever makes decryptKVS throw (an encryptedKVS
\* member that is missing, a key or ciphertext that subtle.decrypt rejects,
\* decrypted bytes that are not JSON), load throws the same error
MergedDecryptFailure ==
  (impl = "main" /\ res.op = "load" /\ res.cause # "no")
    => /\ res.outcome = "IncorrectPassword"
       /\ \A password \in Passwords, tamper \in TamperKinds :
            LET r == Keychain_load(password, Tamper(res.dump.contents, tamper),
                                   Undefined)
            IN r.cause # "no" => r.outcome = res.outcome

MergedDecryptFailureWitness ==
  /\ impl = "main" /\ res.op = "load" /\ res.outcome = "IncorrectPassword"
  /\ res.cause = "SyntaxError" /\ res.password = master
  /\ \E password \in Passwords :
       Keychain_load(password, res.dump.contents, res.dump.checksum).cause
         = "OperationError"
  /\ Keychain_load(master, Tamper(res.dump.contents, "noenc"), Undefined).cause
       = "TypeError"

\* C20: the Proj1_Starter load accepts the pair its dump returned, with the
\* password of init, and the loaded keychain answers get like the dumped one
P1RoundTrip ==
  (/\ impl = "p1" /\ res.op = "load" /\ res.blob = "dump"
   /\ res.checksum = res.dump.checksum /\ res.password = master)
    => /\ res.outcome = "ok"
       /\ \A d \in Domains : P1_get(res.keychain, d) = P1_get(kc, d)

\* C21: set(d, v) and remove(d) leave get(d') as it was for every other
\* domain d'; get and dump leave the keychain (entries, salt, key) as it was
FrameKept ==
  [][/\ (kc # NoKeychain /\ res'.op \in {"set", "remove"})
         => \A d \in Domains \ {res'.url} : Get(kc', d) = Get(kc, d)
     /\ (kc # NoKeychain /\ res'.op \in {"get", "dump"}) => kc' = kc]_vars

FrameKeptWitness ==
  /\ impl = "main" /\ res.op = "set" /\ res.url = "a.com"
  /\ kc.kvs.keys = <<"constructor", "a.com">>
  /\ Keychain_get(kc, "constructor") = Str("x") /\ Keychain_get(kc, "a.com") = Str("xx")

\* the text of the store that was encrypted into a dumped blob
EncryptedStore(contents) ==
  Member(Member(contents.members, "encryptedKVS").members, "encryptedKVS").pt.members

\* C22: in the contents a dump with includeKVS returns, also when set or
\* remove ran while the dump was suspended, the kvs member is the store that
\* was encrypted into encryptedKVS
SnapshotDump ==
  (res.op = "http" /\ res.route = "dump" /\ res.status = 200 /\ res.includeKVS)
    => Member(res.body.contents.members, "kvs").txt = EncryptedStore(res.body.contents)

\* C23: a create or load request answered with an error leaves the server's
\* keychain instance, entries included, as it was
FailedOpenKeepsInstance ==
  [][(res'.op = "http" /\ res'.route \in {"create", "load"} /\ res'.status >= 400)
       => keychainInstance' = keychainInstance]_vars

FailedOpenKeepsInstanceWitness ==
  /\ res.op = "http" /\ res.route = "load" /\ res.status = 400
  /\ res.body = [error |-> ErrorMessage("IncorrectPassword")]
  /\ keychainInstance # NoKeychain
  /\ Keychain_get(keychainInstance, "a.com") = Str("x")

\* C24: the instance is replaced only when a create or load completes, and
\* then by exactly the keychain that call returned (empty for create), which
\* no set handled in the meantime has touched; a dump answers with the salt
\* and the key of one and the same instance
InstanceReplacedOnCompletion ==
  /\ [][(impl \in Servers /\ inflight.open # NoPending /\ inflight'.open = NoPending
           /\ inflight.open.r.outcome = "ok")
          => (/\ keychainInstance' = inflight.open.r.keychain
              /\ (inflight.open.route = "create" => keychainInstance'.kvs = EmptyObj))]_vars
  /\ [][(impl \in Servers /\ inflight.open # NoPending /\ inflight'.open # NoPending)
          => inflight'.open.r = inflight.open.r]_vars
  /\ [][(impl \in Servers /\ keychainInstance # NoKeychain
           /\ (inflight.open = NoPending \/ inflight'.open # NoPending))
          => (/\ keychainInstance' # NoKeychain
              /\ keychainInstance'.masterKey = keychainInstance.masterKey
              /\ keychainInstance'.salt = keychainInstance.salt)]_vars
  /\ []((res.op = "http" /\ res.route = "dump" /\ res.status = 200)
          => LET c == res.body.contents
                 ct == Member(Member(c.members, "encryptedKVS").members, "encryptedKVS")
             IN ct.k.salt = Uint8ArrayOf(Member(c.members, "salt")))

InstanceReplacedOnCompletionWitness ==
  /\ res.op = "http" /\ res.route = "load" /\ res.status = 200
  /\ res.acked /\ keychainInstance = res.returned
  /\ keychainInstance.kvs = EmptyObj

\* C25: the entries of a keychain load returns are those decrypted from
\* encryptedKVS, and load returns the same entries whatever the kvs member
\* of the blob holds
RawViewIgnored ==
  (impl = "main" /\ res.op = "load" /\ res.outcome = "ok")
    => /\ res.keychain.kvs = JSONparseMap(EncryptedStore(res.contents))
       /\ \A view \in {JSnull, ForgedView(JSnull),
                        [t |-> "map", txt |-> EncryptedStore(res.contents)]} :
            LET r == Keychain_load(res.password,
                                   WithMember(res.contents, "kvs", view), Undefined)
            IN /\ r.outcome = "ok"
               /\ \A d \in Domains :
                    Keychain_get(r.keychain, d) = Keychain_get(res.keychain, d)

RawViewIgnoredWitness ==
  /\ impl = "main" /\ res.op = "load" /\ res.outcome = "ok" /\ res.tamper = "kvs"
  /\ Member(res.contents.members, "kvs") = ForgedView(JSnull)
  /\ Keychain_get(res.keychain, "a.com") = Str("xx")

====
